---- MODULE Spec2Model ----
(***************************************************************************)
(* PixelForge photo editor: the App component of src/App.tsx as a state    *)
(* machine.  The variables are the component's useState cells, one action  *)
(* per event handler.  React semantics kept by the model: a handler reads  *)
(* the state of the render that created it (its closure), a functional     *)
(* updater setX(prev => ...) reads the queued value, and the component is  *)
(* re-rendered between two events, so the closure of a handler is the      *)
(* state at the moment its event is delivered.                             *)
(***************************************************************************)
EXTENDS Integers, Sequences, FiniteSets, TLC

VARIABLES image, overlay, activeTool, adjustments, rotation, canvasBg,
          strokes, texts, isDrawing, brushSettings, history, historyIndex,
          canvas, clock, lastOp, finalized

vars == <<image, overlay, activeTool, adjustments, rotation, canvasBg,
          strokes, texts, isDrawing, brushSettings, history, historyIndex,
          canvas, clock, lastOp, finalized>>

\* ---------------------------------------------------------------- bounds
\* Strokes and text labels created in one behaviour (reads of Date.now()).
MaxClock == 1
\* Points of one stroke.
MaxPoints == 2
\* Snapshots pushed since the last image load, editor specification.
MaxPushes == 1
\* Snapshots pushed since the last image load, history specification.
MaxHistPushes == 22
\* Snapshots pushed since the last image load, frame specification.
MaxFramePushes == 4

\* ------------------------------------------------------------- constants
\* No image: the null of an image state cell.
Null == [width |-> 0, height |-> 0]

\* src/constants.ts:3-22
INITIAL_ADJUSTMENTS ==
  [ brightness |-> 100, contrast |-> 100, saturation |-> 100, grayscale |-> 0,
    sepia |-> 0, hueRotate |-> 0, blur |-> 0, invert |-> 0, exposure |-> 100,
    gamma |-> 100, vignette |-> 0, noise |-> 0, grain |-> 0,
    perspectiveH |-> 0, perspectiveV |-> 0, duotoneEnabled |-> FALSE,
    duotoneLight |-> "#ffffff", duotoneDark |-> "#000000" ]

\* src/constants.ts:24-31, the adj of each preset by id
ULTRA_PRESETS ==
  [ orig  |-> INITIAL_ADJUSTMENTS,
    cyber |-> [INITIAL_ADJUSTMENTS EXCEPT !.hueRotate = 280, !.saturation = 160,
                                          !.contrast = 120],
    mid   |-> [INITIAL_ADJUSTMENTS EXCEPT !.brightness = 70, !.contrast = 140,
                                          !.exposure = 80, !.sepia = 20],
    gold  |-> [INITIAL_ADJUSTMENTS EXCEPT !.sepia = 40, !.saturation = 140,
                                          !.brightness = 110],
    noir  |-> [INITIAL_ADJUSTMENTS EXCEPT !.grayscale = 100, !.contrast = 180,
                                          !.grain = 2000],
    fade  |-> [INITIAL_ADJUSTMENTS EXCEPT !.exposure = 120, !.saturation = 80,
                                          !.contrast = 90, !.sepia = 15] ]

\* src/constants.ts:33-35
BLEND_MODES ==
  << "source-over", "multiply", "screen", "overlay", "darken", "lighten",
     "color-dodge", "color-burn", "hard-light", "soft-light" >>

\* src/App.tsx:38, the capacity of the history log
HistoryCapacity == 20

\* The overlay a fresh or reset editor has (opacity in hundredths: 0.5).
EmptyOverlay == [image |-> Null, opacity |-> 50, blendMode |-> "screen"]

\* ---------------------------------------------------------------- inputs
\* Decoded images handed over by the file reader: width and height.
Images == { [width |-> 400, height |-> 600] }
\* Decoded images of the frame specification: a portrait one whose area is
\* a multiple of 5000 and a small one whose area is not.
FrameImages == { [width |-> 400, height |-> 600], [width |-> 3, height |-> 5] }
\* The tools of the navigation bar (src/App.tsx:254-259).
NavTools == {"adjust", "filter", "overlay", "transform", "draw", "text"}
\* Canvas positions a pointer event resolves to (getCanvasPos).
PosInputs == { [x |-> 10, y |-> 20] }
\* Values the sliders of the adjust panel deliver, by field.
SliderInputs == { <<"grain", 2500>> }
\* Colours a colour input delivers.
ColorInputs == { "#ff0000" }
\* Presets clicked.
PresetInputs == { "noir" }
\* Answers to the text prompt: "" stands for an empty answer or a cancel.
PromptInputs == { "", "STUDIO PRO" }
\* Colour strings the duotone block may be handed: well formed with and
\* without '#', in capitals and mixed case, and malformed ones (empty, the
\* three-digit short form, a letter outside a-f, seven digits, a name).
HexInputs ==
  { "#FF8800", "1a2B3c", "#00ff7f", "", "#fff", "#gg0000", "#ff00001", "red" }
\* Brush palette and styles (src/App.tsx:388,396) and widths of the slider.
BrushColors == { "#ef4444" }
BrushModes == { "glow" }
BrushWidths == { 20 }
OpacityInputs == { 100 }
BlendInputs == { BLEND_MODES[2] }

\* --------------------------------------------------------------- helpers
Min(a, b) == IF a < b THEN a ELSE b
Max(a, b) == IF a > b THEN a ELSE b

\* Array.prototype.slice(0, end) for end >= 0.
SliceTo(s, end) == SubSeq(s, 1, Min(end, Len(s)))
\* Array.prototype.slice(-n): the last n elements.
SliceLast(s, n) == SubSeq(s, Max(1, Len(s) - n + 1), Len(s))

\* JSON.parse(JSON.stringify(state)) on an EditorState: a structural copy,
\* field by field, of numbers, strings, booleans, arrays and plain objects.
JsonCloneStroke(s) ==
  [ id |-> s.id,
    points |-> [j \in 1..Len(s.points) |-> [x |-> s.points[j].x, y |-> s.points[j].y]],
    color |-> s.color, width |-> s.width, mode |-> s.mode ]

JsonCloneText(t) ==
  [ id |-> t.id, text |-> t.text, x |-> t.x, y |-> t.y, color |-> t.color,
    size |-> t.size, fontWeight |-> t.fontWeight, align |-> t.align,
    letterSpacing |-> t.letterSpacing ]

JsonClone(st) ==
  [ adjustments |-> [f \in DOMAIN st.adjustments |-> st.adjustments[f]],
    rotation |-> st.rotation, flipH |-> st.flipH, flipV |-> st.flipV,
    strokes |-> [i \in 1..Len(st.strokes) |-> JsonCloneStroke(st.strokes[i])],
    texts |-> [i \in 1..Len(st.texts) |-> JsonCloneText(st.texts[i])],
    canvasBg |-> st.canvasBg ]

\* The EditorState object saveToHistory builds from the values it closed over.
EditorState(adj, rot, strk, txt, bg) ==
  [ adjustments |-> adj, rotation |-> rot, flipH |-> FALSE, flipV |-> FALSE,
    strokes |-> strk, texts |-> txt, canvasBg |-> bg ]

\* The state the handlers of the current render closed over.
ClosureState == EditorState(adjustments, rotation, strokes, texts, canvasBg)

\* PushSnapshot without the slice(-20): the log grows without bound.
PushSnapshotUncapped(prev, idx, st) ==
  SliceTo(prev, idx + 1) \o <<JsonClone(st)>>

\* PushSnapshot without the slice(0, historyIndex + 1): the snapshots after
\* the pointer stay under the new one.
PushSnapshotNoTruncate(prev, idx, st) ==
  SliceLast(prev \o <<JsonClone(st)>>, HistoryCapacity)

\* The updater given to setHistory: truncate after the pointer, append the
\* copy, keep the last 20.
PushSnapshot(prev, idx, st) ==
  SliceLast(SliceTo(prev, idx + 1) \o <<JsonClone(st)>>, HistoryCapacity)

\* saveToHistory called by a handler of the current render.
saveToHistory ==
  /\ history' = PushSnapshot(history, historyIndex, ClosureState)
  /\ historyIndex' = historyIndex + 1

\* The canvas before any render pass: no extents, nothing drawn.
\* ------------------------------------------------------- duotone remap
\* The characters [a-f\d] of the pattern of hexToRgb, and the ones the i flag
\* adds; the value of a digit is its position less one.
LowerHexDigits ==
  <<"0", "1", "2", "3", "4", "5", "6", "7", "8", "9", "a", "b", "c", "d", "e", "f">>
UpperHexDigits ==
  <<"0", "1", "2", "3", "4", "5", "6", "7", "8", "9", "A", "B", "C", "D", "E", "F">>

CharAt(str, i) == SubSeq(str, i, i)

IsHexDigit(ch) ==
  \E i \in 1..16 : LowerHexDigits[i] = ch \/ UpperHexDigits[i] = ch

IsLowerHexDigit(ch) == \E i \in 1..16 : LowerHexDigits[i] = ch

HexDigitValue(ch) ==
  (CHOOSE i \in 1..16 : LowerHexDigits[i] = ch \/ UpperHexDigits[i] = ch) - 1

\* parseInt(pair, 16) of a group the pattern matched: two hex digits.
ParseInt16(pair) == 16 * HexDigitValue(CharAt(pair, 1)) + HexDigitValue(CharAt(pair, 2))

\* The null of a failed match.
NullRgb == [r |-> -1, g |-> -1, b |-> -1]

\* hexToRgb without the i flag: capitals do not match.
hexToRgbLowerOnly(hex) ==
  LET body == IF Len(hex) > 0 /\ CharAt(hex, 1) = "#"
                THEN SubSeq(hex, 2, Len(hex)) ELSE hex
  IN  IF Len(body) = 6 /\ \A i \in 1..6 : IsLowerHexDigit(CharAt(body, i))
        THEN [ r |-> ParseInt16(SubSeq(body, 1, 2)),
               g |-> ParseInt16(SubSeq(body, 3, 4)),
               b |-> ParseInt16(SubSeq(body, 5, 6)) ]
        ELSE NullRgb

\* hexToRgb: /^#?([a-f\d]{2})([a-f\d]{2})([a-f\d]{2})$/i over the whole
\* string, the three groups read as base-16 numbers; null without a match.
hexToRgb(hex) ==
  LET body == IF Len(hex) > 0 /\ CharAt(hex, 1) = "#"
                THEN SubSeq(hex, 2, Len(hex)) ELSE hex
  IN  IF Len(body) = 6 /\ \A i \in 1..6 : IsHexDigit(CharAt(body, i))
        THEN [ r |-> ParseInt16(SubSeq(body, 1, 2)),
               g |-> ParseInt16(SubSeq(body, 3, 4)),
               b |-> ParseInt16(SubSeq(body, 5, 6)) ]
        ELSE NullRgb

\* a || b on the result of hexToRgb: an object is truthy, null is not.
OrElse(rgb, fallback) == IF rgb = NullRgb THEN fallback ELSE rgb

\* The store of the number num / den into an element of a Uint8ClampedArray:
\* clamped to 0..255 and rounded to the nearest integer, a tie to the even
\* one.
ToUint8Clamp(num, den) ==
  LET q == num \div den
      r == num % den
  IN  IF num <= 0 THEN 0
      ELSE IF num >= 255 * den THEN 255
      ELSE IF 2 * r < den THEN q
      ELSE IF 2 * r > den THEN q + 1
      ELSE IF q % 2 = 0 THEN q ELSE q + 1

\* One iteration of the duotone loop with the stores truncated instead of
\* rounded.
DuotonePixelTruncated(px, light, dark) ==
  LET sum == px.r + px.g + px.b
      Ch(d, l) == (d * (3 * 255) + (l - d) * sum) \div (3 * 255)
  IN  [ r |-> Ch(dark.r, light.r), g |-> Ch(dark.g, light.g),
        b |-> Ch(dark.b, light.b), a |-> px.a ]

\* One iteration of the duotone loop on the pixel px: avg = (r + g + b) / 3
\* / 255 is read before the three stores, each channel becomes dark +
\* (light - dark) * avg, the alpha byte is not written.  The value of a
\* channel is the fraction (dark * 765 + (light - dark) * (r + g + b)) / 765.
DuotonePixel(px, light, dark) ==
  LET sum == px.r + px.g + px.b
      Ch(d, l) == ToUint8Clamp(d * (3 * 255) + (l - d) * sum, 3 * 255)
  IN  [ r |-> Ch(dark.r, light.r), g |-> Ch(dark.g, light.g),
        b |-> Ch(dark.b, light.b), a |-> px.a ]

\* Pixels of the buffer the duotone block reads, as samples of getImageData.
SamplePixels ==
  [ r : {0, 200, 255}, g : {0, 100}, b : {1}, a : {128, 255} ]

\* The pass without a duotone block.
NoDuotone == [light |-> NullRgb, dark |-> NullRgb, out |-> <<>>]

\* The duotone block: the two colours it parsed, with their fallbacks, and
\* what its loop wrote for each sample pixel.
Duotone(adj) ==
  LET light == OrElse(hexToRgb(adj.duotoneLight), [r |-> 255, g |-> 255, b |-> 255])
      dark  == OrElse(hexToRgb(adj.duotoneDark), [r |-> 0, g |-> 0, b |-> 0])
  IN  [ light |-> light, dark |-> dark,
        out |-> [px \in SamplePixels |-> DuotonePixel(px, light, dark)] ]

NoCanvas ==
  [width |-> 0, height |-> 0, filter |-> <<>>, stages |-> <<>>, grainMarks |-> 0,
   duotone |-> NoDuotone]

\* The divisor of the grain density (src/App.tsx:143).
GrainDivisor == 5000

\* The marks one pass of the grain block draws on a w x h canvas: the loop
\* for (i = 0; i < (w * h * grain) / 5000; i++) runs once for every integer
\* i from 0 that is below the quotient, q times when the quotient is the
\* integer q and q + 1 times when it lies between q and q + 1.  The block
\* is skipped unless grain > 0.
GrainMarks(w, h, grain) ==
  LET n == w * h * grain
      q == n \div GrainDivisor
  IN  IF grain > 0
        THEN IF n % GrainDivisor = 0 THEN q ELSE q + 1
        ELSE 0

\* The ctx.filter string of the main draw: the filter functions in the order
\* of the template, each with the Adjustments field it interpolates.  The
\* last one, brightness(exposure / 100), is a plain factor.
FilterChain(adj) ==
  << [fn |-> "brightness", arg |-> adj.brightness, unit |-> "%"],
     [fn |-> "contrast",   arg |-> adj.contrast,   unit |-> "%"],
     [fn |-> "saturate",   arg |-> adj.saturation, unit |-> "%"],
     [fn |-> "grayscale",  arg |-> adj.grayscale,  unit |-> "%"],
     [fn |-> "blur",       arg |-> adj.blur,       unit |-> "px"],
     [fn |-> "invert",     arg |-> adj.invert,     unit |-> "%"],
     [fn |-> "brightness", arg |-> adj.exposure,   unit |-> "/100"] >>

\* render with the grain block placed before the overlay block.
renderGrainFirst(img, rot, adj, ovl, strk, txt) ==
  LET isRotated == rot % 180 # 0
      s1 == <<"draw">>
      s2 == IF adj.duotoneEnabled THEN Append(s1, "duotone") ELSE s1
      s3 == IF adj.grain > 0 THEN Append(s2, "grain") ELSE s2
      s4 == IF ovl.image # Null THEN Append(s3, "overlay") ELSE s3
      s5 == Append(s4, "strokes")
      s6 == Append(s5, "texts")
      w == IF isRotated THEN img.height ELSE img.width
      h == IF isRotated THEN img.width ELSE img.height
  IN  [ width  |-> w,
        height |-> h,
        filter |-> FilterChain(adj),
        stages |-> s6,
        duotone |-> IF adj.duotoneEnabled THEN Duotone(adj) ELSE NoDuotone,
        grainMarks |-> GrainMarks(w, h, adj.grain) ]

\* render with the canvas extents taken from the image whatever the rotation.
renderNoSwap(img, rot, adj, ovl, strk, txt) ==
  LET s1 == <<"draw">>
      s2 == IF adj.duotoneEnabled THEN Append(s1, "duotone") ELSE s1
      s3 == IF ovl.image # Null THEN Append(s2, "overlay") ELSE s2
      s4 == IF adj.grain > 0 THEN Append(s3, "grain") ELSE s3
      s5 == Append(s4, "strokes")
      s6 == Append(s5, "texts")
  IN  [ width  |-> img.width,
        height |-> img.height,
        filter |-> FilterChain(adj),
        stages |-> s6,
        duotone |-> IF adj.duotoneEnabled THEN Duotone(adj) ELSE NoDuotone,
        grainMarks |-> GrainMarks(img.width, img.height, adj.grain) ]

\* One render pass over a source image: the canvas extents, the filter of
\* the main draw and the stages in the order they run.  "draw" is the
\* background fill and the rotated, filtered drawImage.
render(img, rot, adj, ovl, strk, txt) ==
  LET isRotated == rot % 180 # 0
      s1 == <<"draw">>
      s2 == IF adj.duotoneEnabled THEN Append(s1, "duotone") ELSE s1
      s3 == IF ovl.image # Null THEN Append(s2, "overlay") ELSE s2
      s4 == IF adj.grain > 0 THEN Append(s3, "grain") ELSE s3
      s5 == Append(s4, "strokes")
      s6 == Append(s5, "texts")
      w == IF isRotated THEN img.height ELSE img.width
      h == IF isRotated THEN img.width ELSE img.height
  IN  [ width  |-> w,
        height |-> h,
        filter |-> FilterChain(adj),
        stages |-> s6,
        duotone |-> IF adj.duotoneEnabled THEN Duotone(adj) ELSE NoDuotone,
        grainMarks |-> GrainMarks(w, h, adj.grain) ]

\* ------------------------------------------------------------------ Init
Init ==
  /\ image = Null
  /\ overlay = EmptyOverlay
  /\ activeTool = "adjust"
  /\ adjustments = INITIAL_ADJUSTMENTS
  /\ rotation = 0
  /\ canvasBg = "#0a0f1a"
  /\ canvas = NoCanvas
  /\ strokes = <<>>
  /\ texts = <<>>
  /\ isDrawing = FALSE
  /\ brushSettings = [color |-> "#3b82f6", width |-> 5, mode |-> "pencil"]
  /\ history = <<>>
  /\ historyIndex = -1
  /\ clock = 0
  /\ lastOp = "init"
  /\ finalized = {}


\* --------------------------------------------------------------- actions
\* Ghost bookkeeping of an event that is not a pointer release.  lastOp names
\* the event delivered last: "load", "down", "move", "release", the name of
\* a handler that calls saveToHistory, or "edit" for every other handler.
\* finalized holds the ids of the strokes after whose creation a pointer
\* release has been delivered.
\* The effect that follows every commit: with an image, a full render pass
\* over the committed state.
renderEffect ==
  canvas' = IF image' = Null
              THEN canvas
              ELSE render(image', rotation', adjustments', overlay', strokes', texts')

Delivered(op) == renderEffect /\ lastOp' = op /\ finalized' = finalized

\* resetEditor without its setStrokes([]).
resetEditorKeepsStrokes ==
  /\ adjustments' = INITIAL_ADJUSTMENTS
  /\ rotation' = 0
  /\ strokes' = strokes
  /\ texts' = <<>>
  /\ overlay' = EmptyOverlay
  /\ history' = <<>>
  /\ historyIndex' = -1

\* resetEditor (zoom is not modelled).
resetEditor ==
  /\ adjustments' = INITIAL_ADJUSTMENTS
  /\ rotation' = 0
  /\ strokes' = <<>>
  /\ texts' = <<>>
  /\ overlay' = EmptyOverlay
  /\ history' = <<>>
  /\ historyIndex' = -1

\* handleFile: img.onload of the image read from the chosen file.  The
\* callback uses only setters, so it acts on the state at the time it fires.
handleFile(img, isOverlay) ==
  /\ IF isOverlay
       THEN /\ overlay' = [overlay EXCEPT !.image = img]
            /\ UNCHANGED <<image, adjustments, rotation, strokes, texts,
                           history, historyIndex>>
       ELSE /\ image' = img
            /\ resetEditor
  /\ UNCHANGED <<activeTool, canvasBg, isDrawing, brushSettings, clock>>
  /\ Delivered(IF isOverlay THEN "edit" ELSE "load")

\* NavBtn onClick.
SetActiveTool(t) ==
  /\ activeTool' = t
  /\ UNCHANGED <<image, overlay, adjustments, rotation, canvasBg, strokes, texts,
                 isDrawing, brushSettings, history, historyIndex, clock>>
  /\ Delivered("edit")

\* ControlSlider onChange of the adjust panel.
SetAdjustment(f, v) ==
  /\ activeTool = "adjust"
  /\ adjustments' = [adjustments EXCEPT ![f] = v]
  /\ UNCHANGED <<image, overlay, activeTool, rotation, canvasBg, strokes, texts,
                 isDrawing, brushSettings, history, historyIndex, clock>>
  /\ Delivered("edit")

\* Duotone switch of the adjust panel.
ToggleDuotone ==
  /\ activeTool = "adjust"
  /\ adjustments' = [adjustments EXCEPT !.duotoneEnabled = ~adjustments.duotoneEnabled]
  /\ UNCHANGED <<image, overlay, activeTool, rotation, canvasBg, strokes, texts,
                 isDrawing, brushSettings, history, historyIndex, clock>>
  /\ Delivered("edit")

\* ColorInput onChange, shown while duotone is enabled.
SetDuotoneColor(f, c) ==
  /\ activeTool = "adjust"
  /\ adjustments.duotoneEnabled
  /\ adjustments' = [adjustments EXCEPT ![f] = c]
  /\ UNCHANGED <<image, overlay, activeTool, rotation, canvasBg, strokes, texts,
                 isDrawing, brushSettings, history, historyIndex, clock>>
  /\ Delivered("edit")

\* Preset button: setAdjustments(p.adj); saveToHistory().
SelectPreset(id) ==
  /\ activeTool = "filter"
  /\ adjustments' = ULTRA_PRESETS[id]
  /\ saveToHistory
  /\ UNCHANGED <<image, overlay, activeTool, rotation, canvasBg, strokes, texts,
                 isDrawing, brushSettings, clock>>
  /\ Delivered("preset")

\* Opacity slider of the overlay panel: opacity v/100, kept in hundredths.
SetOverlayOpacity(v) ==
  /\ activeTool = "overlay"
  /\ overlay.image # Null
  /\ overlay' = [overlay EXCEPT !.opacity = v]
  /\ UNCHANGED <<image, activeTool, adjustments, rotation, canvasBg, strokes, texts,
                 isDrawing, brushSettings, history, historyIndex, clock>>
  /\ Delivered("edit")

\* Blend mode select of the overlay panel.
SetOverlayBlend(m) ==
  /\ activeTool = "overlay"
  /\ overlay.image # Null
  /\ overlay' = [overlay EXCEPT !.blendMode = m]
  /\ UNCHANGED <<image, activeTool, adjustments, rotation, canvasBg, strokes, texts,
                 isDrawing, brushSettings, history, historyIndex, clock>>
  /\ Delivered("edit")

\* Trash button of the overlay panel.
RemoveOverlay ==
  /\ activeTool = "overlay"
  /\ overlay.image # Null
  /\ overlay' = EmptyOverlay
  /\ UNCHANGED <<image, activeTool, adjustments, rotation, canvasBg, strokes, texts,
                 isDrawing, brushSettings, history, historyIndex, clock>>
  /\ Delivered("edit")

\* Colour, style and size controls of the draw panel.
SetBrush(f, v) ==
  /\ activeTool = "draw"
  /\ brushSettings' = [brushSettings EXCEPT ![f] = v]
  /\ UNCHANGED <<image, overlay, activeTool, adjustments, rotation, canvasBg, strokes,
                 texts, isDrawing, history, historyIndex, clock>>
  /\ Delivered("edit")

\* Trash button of the draw panel: setStrokes([]); saveToHistory().
ClearStrokes ==
  /\ activeTool = "draw"
  /\ strokes' = <<>>
  /\ saveToHistory
  /\ UNCHANGED <<image, overlay, activeTool, adjustments, rotation, canvasBg, texts,
                 isDrawing, brushSettings, clock>>
  /\ Delivered("clearStrokes")

\* Clear Text button: setTexts([]); saveToHistory().
ClearTexts ==
  /\ activeTool = "text"
  /\ texts' = <<>>
  /\ saveToHistory
  /\ UNCHANGED <<image, overlay, activeTool, adjustments, rotation, canvasBg, strokes,
                 isDrawing, brushSettings, clock>>
  /\ Delivered("clearTexts")

\* The label addText appends; the canvas is mounted only with an image.
NewText(content) ==
  [ id |-> clock + 1, text |-> content,
    x |-> canvas.width \div 2, y |-> canvas.height \div 2,
    color |-> brushSettings.color,
    size |-> Max(40, canvas.height \div 10),
    fontWeight |-> "900", align |-> "center", letterSpacing |-> 2 ]

\* addText: prompt, early return on no content or no canvas, append, save.
addText(content) ==
  /\ activeTool = "text"
  /\ IF content = "" \/ image = Null
       THEN UNCHANGED <<texts, history, historyIndex, clock>>
       ELSE /\ texts' = Append(texts, NewText(content))
            /\ clock' = clock + 1
            /\ saveToHistory
  /\ UNCHANGED <<image, overlay, activeTool, adjustments, rotation, canvasBg, strokes,
                 isDrawing, brushSettings>>
  /\ Delivered("addText")

\* Rotate 90 with the rotation left to grow beyond a full turn.
Rotate90NoWrap ==
  /\ activeTool = "transform"
  /\ rotation' = rotation + 90
  /\ saveToHistory
  /\ UNCHANGED <<image, overlay, activeTool, adjustments, canvasBg, strokes, texts,
                 isDrawing, brushSettings, clock>>
  /\ Delivered("rotate")

\* Rotate 90 button: setRotation(r => (r + 90) % 360); saveToHistory().
Rotate90 ==
  /\ activeTool = "transform"
  /\ rotation' = (rotation + 90) % 360
  /\ saveToHistory
  /\ UNCHANGED <<image, overlay, activeTool, adjustments, canvasBg, strokes, texts,
                 isDrawing, brushSettings, clock>>
  /\ Delivered("rotate")

\* Reset Orientation button: setRotation(0); saveToHistory().
ResetOrientation ==
  /\ activeTool = "transform"
  /\ rotation' = 0
  /\ saveToHistory
  /\ UNCHANGED <<image, overlay, activeTool, adjustments, canvasBg, strokes, texts,
                 isDrawing, brushSettings, clock>>
  /\ Delivered("resetOrientation")

\* The stroke a pointer-down creates.
NewStroke(pos) ==
  [ id |-> clock + 1, points |-> <<pos>>, color |-> brushSettings.color,
    width |-> brushSettings.width, mode |-> brushSettings.mode ]

\* ExtendLast without the "no last stroke" return: a move with nothing to
\* extend starts a stroke of its own.
ExtendLastUnchecked(prev, pos) ==
  IF prev = <<>>
    THEN << [id |-> clock, points |-> <<pos>>, color |-> brushSettings.color,
             width |-> brushSettings.width, mode |-> brushSettings.mode] >>
    ELSE LET last == prev[Len(prev)]
         IN  Append(SubSeq(prev, 1, Len(prev) - 1),
                    [last EXCEPT !.points = Append(last.points, pos)])

\* The updater of a pointer-move: extend the last stroke, if there is one.
ExtendLast(prev, pos) ==
  IF prev = <<>>
    THEN prev
    ELSE LET last == prev[Len(prev)]
         IN  Append(SubSeq(prev, 1, Len(prev) - 1),
                    [last EXCEPT !.points = Append(last.points, pos)])

\* handleInteraction on mousedown / touchstart.
PointerDown(pos) ==
  /\ image # Null
  /\ IF activeTool # "draw"
       THEN UNCHANGED <<strokes, isDrawing, clock>>
       ELSE /\ isDrawing' = TRUE
            /\ strokes' = Append(strokes, NewStroke(pos))
            /\ clock' = clock + 1
  /\ UNCHANGED <<image, overlay, activeTool, adjustments, rotation, canvasBg, texts,
                 brushSettings, history, historyIndex>>
  /\ Delivered("down")

\* PointerMove over snapshots that share the stroke objects of the live list
\* (a shallow copy in saveToHistory) with the point pushed in place: every
\* stored copy of the last stroke grows with it.
PointerMoveAliased(pos) ==
  /\ image # Null
  /\ IF activeTool = "draw" /\ isDrawing /\ strokes # <<>>
       THEN /\ strokes' = ExtendLast(strokes, pos)
            /\ history' =
                 [h \in 1..Len(history) |->
                   [history[h] EXCEPT !.strokes =
                     [j \in 1..Len(history[h].strokes) |->
                       IF history[h].strokes[j].id = strokes[Len(strokes)].id
                         THEN [history[h].strokes[j] EXCEPT
                                 !.points = Append(history[h].strokes[j].points, pos)]
                         ELSE history[h].strokes[j]]]]
       ELSE UNCHANGED <<strokes, history>>
  /\ UNCHANGED <<image, overlay, activeTool, adjustments, rotation, canvasBg, texts,
                 isDrawing, brushSettings, historyIndex, clock>>
  /\ Delivered("move")

\* handleInteraction on mousemove / touchmove.
PointerMove(pos) ==
  /\ image # Null
  /\ IF activeTool = "draw" /\ isDrawing
       THEN strokes' = ExtendLast(strokes, pos)
       ELSE UNCHANGED strokes
  /\ UNCHANGED <<image, overlay, activeTool, adjustments, rotation, canvasBg, texts,
                 isDrawing, brushSettings, history, historyIndex, clock>>
  /\ Delivered("move")

\* handleInteraction on mouseup / touchend / mouseleave.
PointerRelease ==
  /\ image # Null
  /\ IF activeTool = "draw" /\ isDrawing
       THEN /\ isDrawing' = FALSE
            /\ saveToHistory
       ELSE UNCHANGED <<isDrawing, history, historyIndex>>
  /\ UNCHANGED <<image, overlay, activeTool, adjustments, rotation, canvasBg, strokes,
                 texts, brushSettings, clock>>
  /\ renderEffect
  /\ lastOp' = "release"
  /\ finalized' = finalized \cup { strokes[i].id : i \in 1..Len(strokes) }


\* ------------------------------------------------------- specifications
\* The bounds of a run, on the state a step leaves.
Within(maxPushes) ==
  /\ clock' <= MaxClock
  /\ historyIndex' < maxPushes
  /\ \A i \in 1..Len(strokes') : Len(strokes'[i].points) <= MaxPoints

\* The tools whose panels a specification visits.
SessionTools == {"adjust", "filter", "transform", "draw", "text"}
RenderTools == {"adjust", "filter"}
RenderPresets == {"cyber", "mid", "gold"}
HistTools == {"transform", "text"}
LoadTools == {"adjust", "overlay", "transform", "draw", "text"}
FrameTools == {"adjust", "transform"}

\* An editing session: image loads, drawing, text, orientation, and the
\* history they capture.
Next ==
  \/ \E img \in Images : handleFile(img, FALSE) /\ Within(MaxPushes)
  \/ \E t \in SessionTools : SetActiveTool(t) /\ Within(MaxPushes)
  \/ \E in \in SliderInputs : SetAdjustment(in[1], in[2]) /\ Within(MaxPushes)
  \/ \E id \in PresetInputs : SelectPreset(id) /\ Within(MaxPushes)
  \/ ClearStrokes /\ Within(MaxPushes)
  \/ ClearTexts /\ Within(MaxPushes)
  \/ \E content \in PromptInputs : addText(content) /\ Within(MaxPushes)
  \/ Rotate90 /\ Within(MaxPushes)
  \/ ResetOrientation /\ Within(MaxPushes)
  \/ \E pos \in PosInputs : PointerDown(pos) /\ Within(MaxPushes)
  \/ \E pos \in PosInputs : PointerMove(pos) /\ Within(MaxPushes)
  \/ PointerRelease /\ Within(MaxPushes)

Spec == Init /\ [][Next]_vars

\* Image loads over an edited state: one edit of each part of the state
\* that resetEditor resets.
NextLoad ==
  \/ \E img \in Images : handleFile(img, FALSE) /\ Within(MaxPushes)
  \/ \E img \in Images : handleFile(img, TRUE) /\ Within(MaxPushes)
  \/ \E t \in LoadTools : SetActiveTool(t) /\ Within(MaxPushes)
  \/ \E in \in SliderInputs : SetAdjustment(in[1], in[2]) /\ Within(MaxPushes)
  \/ \E c \in BrushColors : SetBrush("color", c) /\ Within(MaxPushes)
  \/ \E m \in BrushModes : SetBrush("mode", m) /\ Within(MaxPushes)
  \/ \E w \in BrushWidths : SetBrush("width", w) /\ Within(MaxPushes)
  \/ \E v \in OpacityInputs : SetOverlayOpacity(v) /\ Within(MaxPushes)
  \/ \E m \in BlendInputs : SetOverlayBlend(m) /\ Within(MaxPushes)
  \/ RemoveOverlay /\ Within(MaxPushes)
  \/ \E content \in PromptInputs : addText(content) /\ Within(MaxPushes)
  \/ Rotate90 /\ Within(MaxPushes)
  \/ \E pos \in PosInputs : PointerDown(pos) /\ Within(MaxPushes)

SpecLoad == Init /\ [][NextLoad]_vars

\* The parameters of the render pass: the adjust panel, the presets and the
\* overlay, each commit followed by its render.
NextRender ==
  \/ \E img \in Images : handleFile(img, FALSE) /\ Within(MaxPushes)
  \/ \E img \in Images : handleFile(img, TRUE) /\ Within(MaxPushes)
  \/ \E t \in RenderTools : SetActiveTool(t) /\ Within(MaxPushes)
  \/ \E in \in SliderInputs : SetAdjustment(in[1], in[2]) /\ Within(MaxPushes)
  \/ ToggleDuotone /\ Within(MaxPushes)
  \/ \E f \in {"duotoneLight", "duotoneDark"}, c \in ColorInputs :
        SetDuotoneColor(f, c) /\ Within(MaxPushes)
  \/ \E id \in RenderPresets : SelectPreset(id) /\ Within(MaxPushes)

SpecRender == Init /\ [][NextRender]_vars


\* Long runs of the history log: orientation and text captures, up to
\* MaxHistPushes snapshots after a load.
NextHist ==
  \/ \E img \in Images : handleFile(img, FALSE) /\ Within(MaxHistPushes)
  \/ \E t \in HistTools : SetActiveTool(t) /\ Within(MaxHistPushes)
  \/ Rotate90 /\ Within(MaxHistPushes)
  \/ \E content \in PromptInputs : addText(content) /\ Within(MaxHistPushes)

SpecHist == Init /\ [][NextHist]_vars

\* The output frame: image loads of several sizes, the orientation buttons
\* and the grain slider, each commit followed by its render.
NextFrame ==
  \/ \E img \in FrameImages : handleFile(img, FALSE) /\ Within(MaxFramePushes)
  \/ \E t \in FrameTools : SetActiveTool(t) /\ Within(MaxFramePushes)
  \/ \E in \in SliderInputs : SetAdjustment(in[1], in[2]) /\ Within(MaxFramePushes)
  \/ Rotate90 /\ Within(MaxFramePushes)
  \/ ResetOrientation /\ Within(MaxFramePushes)

SpecFrame == Init /\ [][NextFrame]_vars

\* The duotone block as a function of the two colour strings: the editor
\* with an image and duotone enabled, over every pair of HexInputs.  The
\* colour inputs of the panel deliver "#rrggbb" only, so the other strings
\* are inputs of hexToRgb that no run of the editor produces.
InitDuotone ==
  /\ image \in Images
  /\ overlay = EmptyOverlay
  /\ activeTool = "adjust"
  /\ \E l \in HexInputs, d \in HexInputs :
       adjustments = [INITIAL_ADJUSTMENTS EXCEPT !.duotoneEnabled = TRUE,
                                                 !.duotoneLight = l,
                                                 !.duotoneDark = d]
  /\ rotation = 0
  /\ canvasBg = "#0a0f1a"
  /\ strokes = <<>>
  /\ texts = <<>>
  /\ isDrawing = FALSE
  /\ brushSettings = [color |-> "#3b82f6", width |-> 5, mode |-> "pencil"]
  /\ history = <<>>
  /\ historyIndex = -1
  /\ canvas = render(image, rotation, adjustments, overlay, strokes, texts)
  /\ clock = 0
  /\ lastOp = "init"
  /\ finalized = {}

NextDuotone ==
  \/ \E img \in Images : handleFile(img, FALSE) /\ Within(MaxPushes)
  \/ \E t \in RenderTools : SetActiveTool(t) /\ Within(MaxPushes)
  \/ \E in \in SliderInputs : SetAdjustment(in[1], in[2]) /\ Within(MaxPushes)
  \/ ToggleDuotone /\ Within(MaxPushes)
  \/ \E f \in {"duotoneLight", "duotoneDark"}, c \in ColorInputs :
        SetDuotoneColor(f, c) /\ Within(MaxPushes)

SpecDuotone == InitDuotone /\ [][NextDuotone]_vars

\* The updater of saveToHistory as a function of (prev, historyIndex): the
\* editor with an image, over every log of up to HistoryCapacity orientation
\* snapshots and every pointer from -1 to the tail.  The handlers of this
\* repository never move the pointer back, so the pointers before the tail
\* are inputs of the function that no run of the editor produces.
LogOfLength(n) ==
  [i \in 1..n |-> EditorState(INITIAL_ADJUSTMENTS, (90 * (i - 1)) % 360, <<>>, <<>>,
                              "#0a0f1a")]

InitPush ==
  /\ image \in Images
  /\ overlay = EmptyOverlay
  /\ activeTool = "transform"
  /\ adjustments = INITIAL_ADJUSTMENTS
  /\ canvasBg = "#0a0f1a"
  /\ strokes = <<>>
  /\ texts = <<>>
  /\ isDrawing = FALSE
  /\ brushSettings = [color |-> "#3b82f6", width |-> 5, mode |-> "pencil"]
  /\ \E n \in 0..HistoryCapacity :
       /\ history = LogOfLength(n)
       /\ historyIndex \in -1..(n - 1)
       /\ rotation = (90 * n) % 360
  /\ canvas = render(image, rotation, adjustments, overlay, strokes, texts)
  /\ clock = 0
  /\ lastOp = "init"
  /\ finalized = {}

SpecPush == InitPush /\ [][NextHist]_vars

\* ---------------------------------------------------------------- claims
\* The events whose handlers call saveToHistory unconditionally or after
\* their early returns.
CaptureOps == {"preset", "clearStrokes", "clearTexts", "addText", "rotate",
               "resetOrientation"}

\* C2: whenever a handler pushes a snapshot, the newest history entry equals
\* the live editor state {adjustments, rotation, strokes, texts, canvasBg}
\* as it is once the handler's updates are applied.
C2_SnapshotIsLiveState ==
  [][historyIndex' = historyIndex + 1 =>
        history'[Len(history')] = ClosureState']_vars

\* C5: snapshot independence.  An event that neither captures a snapshot nor
\* loads an image leaves the log as it is; a capturing event keeps a
\* contiguous run of the stored snapshots, unchanged, under the new one.
C5_SnapshotIndependence ==
  [][/\ lastOp' \in {"edit", "down", "move"} =>
          history' = history /\ historyIndex' = historyIndex
     /\ lastOp' \in CaptureOps \cup {"release"} =>
          \/ history' = history
          \/ /\ history' # <<>>
             /\ \E a \in 1..(Len(history) + 1), b \in 0..Len(history) :
                  SubSeq(history', 1, Len(history') - 1) = SubSeq(history, a, b)]_vars

\* C5 witness: a pointer-move has extended a stroke of which a stored
\* snapshot holds the shorter, earlier copy.
C5_Witness ==
  /\ lastOp = "move"
  /\ strokes # <<>>
  /\ \E h \in 1..Len(history) : \E j \in 1..Len(history[h].strokes) :
       /\ history[h].strokes[j].id = strokes[Len(strokes)].id
       /\ Len(history[h].strokes[j].points) < Len(strokes[Len(strokes)].points)

\* C6: a pointer release delivered while the editor is Drawing leaves it
\* Ready, so no state that follows a release is a Drawing state.
C6_ReleaseEndsDrawing == lastOp = "release" => ~isDrawing

\* C7: a stroke after whose creation a pointer release was delivered is
\* never changed again: a step keeps it as it is, at its place, unless the
\* step empties the stroke list (clear strokes, image load).
C7_FinalizedStrokeImmutable ==
  [][\A i \in 1..Len(strokes) :
        strokes[i].id \in finalized =>
          \/ strokes' = <<>>
          \/ i <= Len(strokes') /\ strokes'[i] = strokes[i]]_vars

\* C8: a pointer-move with no active stroke to extend (not Drawing, or no
\* stroke in the list) changes none of strokes, texts, adjustments, rotation
\* and the history log.
C8_MoveWithoutStrokeDropped ==
  [][(lastOp' = "move" /\ (~isDrawing \/ strokes = <<>>)) =>
        UNCHANGED <<strokes, texts, adjustments, rotation, history, historyIndex>>]_vars

\* C8 witness: a move was delivered to the draw tool in Drawing with an empty
\* stroke list (the strokes were cleared under the pointer).
C8_Witness ==
  /\ lastOp = "move"
  /\ activeTool = "draw"
  /\ isDrawing
  /\ strokes = <<>>


\* C1: right after a source image has loaded, adjustments, rotation,
\* strokes, texts, overlay and the history log are back at their defaults.
C1_LoadResetsEditor ==
  lastOp = "load" =>
    /\ adjustments = INITIAL_ADJUSTMENTS
    /\ rotation = 0
    /\ strokes = <<>>
    /\ texts = <<>>
    /\ overlay = [image |-> Null, opacity |-> 50, blendMode |-> "screen"]
    /\ history = <<>>
    /\ historyIndex = -1

\* C1 witness: an image has just loaded over an editor in which a stroke was
\* begun (still Drawing) with a changed brush.
C1_Witness ==
  /\ lastOp = "load"
  /\ isDrawing
  /\ clock > 0
  /\ brushSettings.color # "#3b82f6"

\* C3: the log never holds more than 20 snapshots, and a push onto a full
\* log drops the oldest entry and keeps the other 19, in order, under the
\* new one.
C3_HistoryBounded ==
  /\ [](Len(history) <= 20)
  /\ [][(Len(history) = 20 /\ historyIndex' = historyIndex + 1) =>
          /\ Len(history') = 20
          /\ SubSeq(history', 1, 19) = SubSeq(history, 2, 20)]_vars

\* C3 witness: a full log from which an entry has been evicted.
C3_Witness ==
  /\ Len(history) = 20
  /\ historyIndex >= 20
  /\ history[1] # history[20]

\* C4: a push with the pointer p before the tail leaves entries 0..p as they
\* were, followed by the new snapshot (the copy saveToHistory made) as the
\* last entry: every entry after the pointer is gone.
C4_PushTruncatesRedoTail ==
  [][(historyIndex < Len(history) - 1 /\ historyIndex' = historyIndex + 1) =>
        /\ Len(history') = historyIndex + 2
        /\ SubSeq(history', 1, historyIndex + 1) = SubSeq(history, 1, historyIndex + 1)
        /\ history'[Len(history')] = ClosureState]_vars

\* C4 witness: a rotate has cut a log back.  No text was ever added, so every
\* entry is a drawn one or an orientation snapshot; the log ends below its
\* capacity with a snapshot the drawn log did not hold at that place, which
\* only a push from before the tail produces.
C4_Witness ==
  /\ lastOp = "rotate"
  /\ historyIndex = Len(history) - 1
  /\ Len(history) >= 2
  /\ Len(history) < HistoryCapacity
  /\ clock = 0
  /\ history[Len(history)] # LogOfLength(HistoryCapacity)[Len(history)]

\* The order of the stages of a render pass.
StageOrder == <<"draw", "duotone", "overlay", "grain", "strokes", "texts">>
StageRank(st) == CHOOSE i \in 1..Len(StageOrder) : StageOrder[i] = st
StagesRun == { canvas.stages[i] : i \in 1..Len(canvas.stages) }

\* C9: the render pass of every state with an image ran its stages in the
\* order draw, duotone, overlay, grain, strokes, texts; duotone, overlay and
\* grain only under their conditions; draw, strokes and texts always.
C9_StagesInOrder ==
  image # Null =>
    /\ \A i, j \in 1..Len(canvas.stages) :
         i < j => StageRank(canvas.stages[i]) < StageRank(canvas.stages[j])
    /\ "duotone" \in StagesRun => adjustments.duotoneEnabled
    /\ "overlay" \in StagesRun => overlay.image # Null
    /\ "grain" \in StagesRun => adjustments.grain > 0
    /\ {"draw", "strokes", "texts"} \subseteq StagesRun

\* C9 witness: a pass in which every conditional stage ran.
C9_Witness ==
  /\ image # Null
  /\ adjustments.duotoneEnabled
  /\ overlay.image # Null
  /\ adjustments.grain > 0
  /\ Len(canvas.stages) = 6

\* C10: the filter of the main draw is brightness, contrast, saturate,
\* grayscale, sepia, hue-rotate, blur, invert and the exposure brightness,
\* in this order, each with its Adjustments field.
C10_FilterChainAsSpecified ==
  image # Null =>
    canvas.filter =
      << [fn |-> "brightness", arg |-> adjustments.brightness, unit |-> "%"],
         [fn |-> "contrast",   arg |-> adjustments.contrast,   unit |-> "%"],
         [fn |-> "saturate",   arg |-> adjustments.saturation, unit |-> "%"],
         [fn |-> "grayscale",  arg |-> adjustments.grayscale,  unit |-> "%"],
         [fn |-> "sepia",      arg |-> adjustments.sepia,      unit |-> "%"],
         [fn |-> "hue-rotate", arg |-> adjustments.hueRotate,  unit |-> "deg"],
         [fn |-> "blur",       arg |-> adjustments.blur,       unit |-> "px"],
         [fn |-> "invert",     arg |-> adjustments.invert,     unit |-> "%"],
         [fn |-> "brightness", arg |-> adjustments.exposure,   unit |-> "/100"] >>

\* C11: in every state with an image the rendered frame is (w, h) of the
\* source image when the rotation is 0 or 180 and (h, w) when it is 90 or
\* 270.
C11_FrameDimensions ==
  image # Null =>
    /\ rotation \in {0, 180} =>
         canvas.width = image.width /\ canvas.height = image.height
    /\ rotation \in {90, 270} =>
         canvas.width = image.height /\ canvas.height = image.width

\* C11 witness: a non-square image rendered a quarter turn round.
C11_Witness ==
  /\ image # Null
  /\ image.width # image.height
  /\ rotation = 270
  /\ canvas.width = image.height
  /\ canvas.height = image.width

\* C12: after any sequence of rotate-90, reset-orientation and image-load
\* actions the rotation is one of 0, 90, 180, 270.
C12_RotationNormalised == rotation \in {0, 90, 180, 270}

\* C12 witness: a fourth quarter turn brought the rotation back to 0.
C12_Witness ==
  /\ lastOp = "rotate"
  /\ rotation = 0
  /\ Len(history) >= 4
  /\ history[Len(history)].rotation = 270

\* C13: a pass with grain > 0 draws floor(width * height * grain / 5000)
\* marks on its frame, also when the quotient is not an integer; a pass
\* with grain <= 0 draws none.
C13_GrainMarkCount ==
  image # Null =>
    canvas.grainMarks =
      IF adjustments.grain > 0
        THEN (canvas.width * canvas.height * adjustments.grain) \div 5000
        ELSE 0

\* The states whose render pass ran the duotone block.
DuotoneRan == image # Null /\ adjustments.duotoneEnabled
Distance(a, b) == IF a < b THEN b - a ELSE a - b

\* C14: with duotone enabled every channel c of every output pixel is the
\* 8-bit value nearest to dark.c + (light.c - dark.c) * avg with avg =
\* (R + G + B) / 3 / 255 of the input pixel, and the alpha is the input's;
\* with light #ffffff and dark #000000 the three channels are equal to the
\* average (R + G + B) / 3 as an 8-bit value.
C14_DuotoneRemap ==
  DuotoneRan =>
    \A px \in SamplePixels :
      LET o == canvas.duotone.out[px]
          light == canvas.duotone.light
          dark == canvas.duotone.dark
          sum == px.r + px.g + px.b
          Near(c, d, l) == /\ c \in 0..255
                           /\ 2 * Distance(765 * c, 765 * d + (l - d) * sum) <= 765
      IN  /\ o.a = px.a
          /\ Near(o.r, dark.r, light.r)
          /\ Near(o.g, dark.g, light.g)
          /\ Near(o.b, dark.b, light.b)
          /\ (adjustments.duotoneLight = "#ffffff" /\ adjustments.duotoneDark = "#000000")
               => /\ o.r = o.g /\ o.g = o.b
                  /\ 2 * Distance(3 * o.r, sum) <= 3

\* C14 witness: a pass with the default white and black over a pixel whose
\* channel sum is not a multiple of 3.
C14_Witness ==
  /\ DuotoneRan
  /\ adjustments.duotoneLight = "#ffffff"
  /\ adjustments.duotoneDark = "#000000"
  /\ \E px \in SamplePixels :
       (px.r + px.g + px.b) % 3 # 0 /\ canvas.duotone.out[px].r > 0

\* What the claim calls well formed: six characters of 0-9, a-f, A-F after
\* an optional '#'.
WellFormedHex(str) ==
  \E k \in {0, 1} :
    /\ Len(str) = 6 + k
    /\ k = 1 => CharAt(str, 1) = "#"
    /\ \A i \in (k + 1)..(k + 6) : IsHexDigit(CharAt(str, i))

\* The bytes of a well-formed colour string, read from its end.
BytesOf(str) ==
  LET n == Len(str)
      Byte(i) == 16 * HexDigitValue(CharAt(str, i)) + HexDigitValue(CharAt(str, i + 1))
  IN  [r |-> Byte(n - 5), g |-> Byte(n - 3), b |-> Byte(n - 1)]

\* C15: a pass with a duotone block uses the three bytes of duotoneLight and
\* of duotoneDark when the string is a well-formed 6-digit hex colour, and
\* white for a malformed duotoneLight, black for a malformed duotoneDark.
C15_HexFallback ==
  DuotoneRan =>
    /\ canvas.duotone.light =
         IF WellFormedHex(adjustments.duotoneLight)
           THEN BytesOf(adjustments.duotoneLight)
           ELSE [r |-> 255, g |-> 255, b |-> 255]
    /\ canvas.duotone.dark =
         IF WellFormedHex(adjustments.duotoneDark)
           THEN BytesOf(adjustments.duotoneDark)
           ELSE [r |-> 0, g |-> 0, b |-> 0]

\* C15 witness: a pass with a malformed light colour and a well-formed dark
\* colour in capitals.
C15_Witness ==
  /\ DuotoneRan
  /\ adjustments.duotoneLight = "#fff"
  /\ adjustments.duotoneDark = "#FF8800"
  /\ canvas.duotone.light = [r |-> 255, g |-> 255, b |-> 255]
  /\ canvas.duotone.dark = [r |-> 255, g |-> 136, b |-> 0]

\* C16: the history pointer designates the newest stored snapshot,
\* historyIndex = length(history) - 1, and is -1 exactly when the log is
\* empty, also after more than 20 pushes.
C16_PointerAtNewest == historyIndex = Len(history) - 1

====
